---- MODULE Spec2Model ----
(***************************************************************************)
(* logmux (main.go): several input log streams are read line by line, each *)
(* line is tagged with its stream's tag and written to one logstash sink.  *)
(* One goroutine (Run) per stream; Mux.Run aggregates their outcomes on a   *)
(* buffered channel.                                                        *)
(***************************************************************************)
EXTENDS Integers, Sequences, FiniteSets, TLC

\* ------------------------------------------------------------------ bounds

\* Largest number of configured streams in the general specification.
MaxStreams == 2

\* The sink accepts 0..MaxBreak Write calls before its connection breaks
\* (or never breaks at all).
MaxBreak == 0

\* Longest input of the specification that draws its lines byte by byte.
MaxLine == 4

\* ------------------------------------------------------- program constants

\* make(chan error, 10)
ChanCap == 10

\* ------------------------------------------------------------ error values

\* A Go error value: its kind, and the file it names ("": none).
Err(k, i) == [kind |-> k, s |-> i]

\* The nil error.
NoErr == Err("nil", "")

\* io.EOF: one value, shared by every reader.
EOF == Err("EOF", "")

\* Mux.Run has not returned yet.
Running == Err("running", "")

\* The nil *bufio.Reader.
NIL == [data |-> <<>>, end |-> Err("absent", "")]

\* ------------------------------------------------------------------- bytes

NL == "\n"
SP == " "
FF == "\f"
QT == "\""
BS == "\\"

\* unicode.IsSpace over the bytes of the model, as bytes.TrimSpace uses it.
IsSpace(c) == c \in {SP, NL, "\t", "\r", FF}

\* The bytes hasNonSpace treats as blank.
IsBlank(c) == c \in {SP, "\t", "\r", NL}

RECURSIVE TrimLeft(_)
TrimLeft(b) == IF b # <<>> /\ IsSpace(Head(b)) THEN TrimLeft(Tail(b)) ELSE b

RECURSIVE TrimRight(_)
TrimRight(b) ==
    IF b # <<>> /\ IsSpace(b[Len(b)]) THEN TrimRight(SubSeq(b, 1, Len(b) - 1)) ELSE b

\* bytes.TrimSpace
TrimSpace(b) == TrimRight(TrimLeft(b))

\* hasNonSpace(buf)
hasNonSpace(b) == \E k \in 1..Len(b) : ~IsBlank(b[k])

RECURSIVE Escape(_)
Escape(t) ==
    IF t = <<>> THEN <<>>
    ELSE (IF Head(t) \in {QT, BS} THEN <<BS, Head(t)>> ELSE <<Head(t)>>) \o Escape(Tail(t))

\* fmt's %q of the tag: double-quoted, with quotes and backslashes escaped.
Quote(t) == <<QT>> \o Escape(t) \o <<QT>>

TagKey == <<QT, "t", "a", "g", QT, ":">>

\* processLine, had the tag been spliced in as it is, between quotes.
processLineRawTag(b, tag) ==
    LET t == TrimSpace(b)
        lst == Len(t)
    IN  IF lst = 0 THEN t
        ELSE IF t[1] = "{" /\ t[lst] = "}"
             THEN IF hasNonSpace(SubSeq(t, 2, lst - 1))
                  THEN SubSeq(t, 1, lst - 1) \o <<",">> \o TagKey \o <<QT>> \o tag
                       \o <<QT, "}", NL>>
                  ELSE <<"{">> \o TagKey \o <<QT>> \o tag \o <<QT, "}", NL>>
             ELSE tag \o <<":", SP>> \o t \o <<NL>>

\* processLine, had every brace-bounded line been spliced, empty or not.
processLineAlwaysSplices(b, tag) ==
    LET t == TrimSpace(b)
        lst == Len(t)
    IN  IF lst = 0 THEN t
        ELSE IF t[1] = "{" /\ t[lst] = "}"
             THEN SubSeq(t, 1, lst - 1) \o <<",">> \o TagKey \o Quote(tag) \o <<"}", NL>>
             ELSE tag \o <<":", SP>> \o t \o <<NL>>

\* processLine, had the brace test looked at the first byte alone.
processLineFirstByteOnly(b, tag) ==
    LET t == TrimSpace(b)
        lst == Len(t)
    IN  IF lst = 0 THEN t
        ELSE IF t[1] = "{"
             THEN IF hasNonSpace(SubSeq(t, 2, lst - 1))
                  THEN SubSeq(t, 1, lst - 1) \o <<",">> \o TagKey \o Quote(tag) \o <<"}", NL>>
                  ELSE <<"{">> \o TagKey \o Quote(tag) \o <<"}", NL>>
             ELSE tag \o <<":", SP>> \o t \o <<NL>>

\* processLine(buf, tag)
processLine(b, tag) ==
    LET t == TrimSpace(b)
        lst == Len(t)
    IN  IF lst = 0 THEN t
        ELSE IF t[1] = "{" /\ t[lst] = "}"
             THEN IF hasNonSpace(SubSeq(t, 2, lst - 1))
                  THEN SubSeq(t, 1, lst - 1) \o <<",">> \o TagKey \o Quote(tag) \o <<"}", NL>>
                  ELSE <<"{">> \o TagKey \o Quote(tag) \o <<"}", NL>>
             ELSE tag \o <<":", SP>> \o t \o <<NL>>

\* ------------------------------------------------------------- environment

\* What one opening of a stream's file delivers: whether the open itself
\* succeeds, the bytes the writer sends, and how the bytes end.
Session(ok, d, e) == [open |-> ok, data |-> d, end |-> e]

\* A configured stream: its variant, its tag, its specifier (a descriptor
\* number or a path), the state of the filesystem at its path, and what the
\* outside world will deliver on it.
Stream(k, t, nm, p, ss) ==
    [kind |-> k, tag |-> t, name |-> nm, path |-> p, sessions |-> ss]

\* Descriptor stream: a blank line, then an unterminated JSON line, then EOF.
FdJson == Stream("fd", <<"t">>, "6", "none",
                 <<Session(TRUE, <<NL, "{", "a", "}">>, "EOF")>>)

\* Descriptor stream: one plain line, then a read error.
FdFail == Stream("fd", <<"u", QT>>, "7", "none",
                 <<Session(TRUE, <<"a", NL>>, "read")>>)

\* Named pipe, created by Open; two writers come and go, then nobody writes.
NpTwice == Stream("np", <<"n">>, "/n", "absent",
                  <<Session(TRUE, <<"b">>, "EOF"),
                    Session(TRUE, <<"{", SP, "}", NL>>, "EOF")>>)

\* Named pipe that exists; its writer sends nothing, and the reopen fails.
NpGone == Stream("np", <<"g">>, "/g", "fifo",
                 <<Session(TRUE, <<>>, "EOF"), Session(FALSE, <<>>, "EOF")>>)

\* A path that holds a regular file: Open refuses it.
NpFile == Stream("np", <<"f">>, "/f", "file", <<>>)

\* A path in a directory that cannot be written: nothing is there, and
\* Mkfifo fails.
NpDenied == Stream("np", <<"d">>, "/d", "denied", <<>>)

\* Named pipe whose first open fails.
NpLost == Stream("np", <<"l">>, "/l", "fifo", <<Session(FALSE, <<>>, "EOF")>>)

Profiles == {FdJson, FdFail, NpTwice, NpGone, NpFile, NpDenied}

RECURSIVE SeqsUpTo(_, _)
SeqsUpTo(S, k) ==
    IF k = 0 THEN {<<>>}
    ELSE LET shorter == SeqsUpTo(S, k - 1)
         IN  shorter \cup {Append(q, x) : q \in {r \in shorter : Len(r) = k - 1}, x \in S}

\* The configurations parseArgs can hand to Mux.Run: one stream or more.
Configs == {c \in SeqsUpTo(Profiles, MaxStreams) : Len(c) >= 1}

\* The network: whether the dial succeeds, and whether and after how many
\* Write calls the connection breaks.
Nets ==
    {[dial |-> d, breaks |-> FALSE, after |-> 0] : d \in BOOLEAN}
    \cup {[dial |-> TRUE, breaks |-> TRUE, after |-> k] : k \in 0..MaxBreak}

\* ------------------------------------------------------------------- state

VARIABLES
    streams,    \* Mux.streams, with what the outside world holds for each
    net,        \* the network the sink dials into
    fs,         \* per stream: what is at its path ("none" for a descriptor)
    opened,     \* per stream: how many times its file has been opened
    source,     \* per stream: BaseStream.source (NIL, or the bytes still to come)
    sink,       \* LogstashService.sink is set
    pcMain,     \* where Mux.Run is
    idx,        \* the index of Mux.Run's current range loop
    n,          \* Mux.Run's count of running streams
    isSingle,   \* Mux.Run's isSingle
    result,     \* what Mux.Run returned
    ch,         \* the channel of outcomes
    pc,         \* per stream: where its goroutine is
    buf,        \* per stream: readOne's buf
    err,        \* per stream: readOne's err
    e2,         \* per stream: readOne's e2
    outcome,    \* per stream: Run's err, the value it sends
    writeLog,   \* the Write calls the sink has completed, in order
    stderr,     \* per stream: the lines its goroutine has written to os.Stderr
    consumed,   \* the outcomes Mux.Run has received, in order
    opens       \* the Open calls Mux.Configure has made, in order (0: the sink)

vars == <<streams, net, fs, opened, source, sink, pcMain, idx, n, isSingle, result,
          ch, pc, buf, err, e2, outcome, writeLog, stderr, consumed, opens>>

envVars == <<streams, net>>
localVars == <<buf, err, e2>>

Ids == 1..Len(streams)

InitWith(cfgs, nets) ==
    /\ streams \in cfgs
    /\ net \in nets
    /\ fs = [i \in Ids |-> streams[i].path]
    /\ opened = [i \in Ids |-> 0]
    /\ source = [i \in Ids |-> NIL]
    /\ sink = FALSE
    /\ pcMain = "configure"
    /\ idx = 0
    /\ n = 0
    /\ isSingle = FALSE
    /\ result = Running
    /\ ch = <<>>
    /\ pc = [i \in Ids |-> "idle"]
    /\ buf = [i \in Ids |-> <<>>]
    /\ err = [i \in Ids |-> NoErr]
    /\ e2 = [i \in Ids |-> NoErr]
    /\ outcome = [i \in Ids |-> NoErr]
    /\ writeLog = <<>>
    /\ stderr = [i \in Ids |-> <<>>]
    /\ consumed = <<>>
    /\ opens = <<>>

Init == InitWith(Configs, Nets)

\* ---------------------------------------------------------------- Mux.Run

\* Mux.Run returns e.
Return(e) ==
    /\ result' = e
    /\ pcMain' = "done"

\* StartLaunch, had isSingle been left at its zero value.
StartLaunchNeverSingle ==
    /\ pcMain' = "launch"
    /\ idx' = 1
    /\ n' = 0
    /\ isSingle' = FALSE
    /\ ch' = <<>>
    /\ UNCHANGED <<result, consumed>>

\* make(chan error, 10); n := 0; isSingle := len(m.streams) == 1
StartLaunch ==
    /\ pcMain' = "launch"
    /\ idx' = 1
    /\ n' = 0
    /\ isSingle' = (Len(streams) = 1)
    /\ ch' = <<>>
    /\ UNCHANGED <<result, consumed>>

\* Mux.Configure: m.logstash.Open()
ConfigureSink ==
    /\ pcMain = "configure"
    /\ IF net.dial
       THEN /\ sink' = TRUE
            /\ pcMain' = "open"
            /\ idx' = 1
            /\ UNCHANGED result
       ELSE /\ Return(Err("dial", ""))
            /\ UNCHANGED <<sink, idx>>
    /\ opens' = Append(opens, 0)
    /\ UNCHANGED <<envVars, fs, opened, source, n, isSingle, ch, pc, localVars,
                   outcome, writeLog, stderr, consumed>>

\* OpenErr, had Configure dropped the error of s.Open().
OpenErrDropped(i) == NoErr

\* NamedPipeStream.Open and PipeStream.Open: the error returned.
OpenErr(i) ==
    IF streams[i].kind = "fd" THEN NoErr
    ELSE IF fs[i] = "file" THEN Err("notpipe", streams[i].name)
    ELSE IF fs[i] = "denied" THEN Err("mkfifo", streams[i].name)
    ELSE NoErr

\* Mux.Configure: s.Open() for the next stream of the loop.
OpenStream ==
    /\ pcMain = "open"
    /\ LET i == idx
           e == OpenErr(i)
       IN  /\ IF streams[i].kind = "fd"
              THEN /\ source' = [source EXCEPT ![i] =
                                    [data |-> streams[i].sessions[1].data,
                                     end |-> IF streams[i].sessions[1].end = "EOF"
                                             THEN EOF ELSE Err("read", streams[i].name)]]
                   /\ opened' = [opened EXCEPT ![i] = 1]
                   /\ UNCHANGED fs
              ELSE /\ fs' = [fs EXCEPT ![i] = IF fs[i] = "absent" THEN "fifo" ELSE fs[i]]
                   /\ UNCHANGED <<source, opened>>
           /\ IF e # NoErr
              THEN /\ Return(e)
                   /\ UNCHANGED <<idx, n, isSingle, ch, consumed>>
              ELSE IF i = Len(streams)
                   THEN StartLaunch
                   ELSE /\ idx' = i + 1
                        /\ UNCHANGED <<pcMain, n, isSingle, result, ch, consumed>>
    /\ opens' = Append(opens, idx)
    /\ UNCHANGED <<envVars, sink, pc, localVars, outcome, writeLog, stderr>>

\* Mux.Run: n++; go Run(s, &m.logstash, ch, isSingle)
Launch ==
    /\ pcMain = "launch"
    /\ n' = n + 1
    /\ pc' = [pc EXCEPT ![idx] = "preread"]
    /\ IF idx = Len(streams)
       THEN /\ pcMain' = "recv"
            /\ UNCHANGED idx
       ELSE /\ idx' = idx + 1
            /\ UNCHANGED pcMain
    /\ UNCHANGED <<envVars, fs, opened, source, sink, isSingle, result, ch, localVars,
                   outcome, writeLog, stderr, consumed, opens>>

\* Receive, had the loop left the count as it was.
ReceiveUncounted ==
    /\ pcMain = "recv"
    /\ ch # <<>>
    /\ LET e == Head(ch)
       IN  /\ ch' = Tail(ch)
           /\ n' = n
           /\ consumed' = Append(consumed, e)
           /\ IF e # EOF THEN Return(e)
              ELSE IF n = 0 THEN Return(NoErr)
              ELSE UNCHANGED <<pcMain, result>>
    /\ UNCHANGED <<envVars, fs, opened, source, sink, idx, isSingle, pc, localVars,
                   outcome, writeLog, stderr, opens>>

\* Receive, had the loop tested the count alone and looked at the error
\* only once every stream had reported.
ReceiveCountOnly ==
    /\ pcMain = "recv"
    /\ ch # <<>>
    /\ LET e == Head(ch)
       IN  /\ ch' = Tail(ch)
           /\ n' = n - 1
           /\ consumed' = Append(consumed, e)
           /\ IF n - 1 = 0 THEN Return(NoErr)
              ELSE UNCHANGED <<pcMain, result>>
    /\ UNCHANGED <<envVars, fs, opened, source, sink, idx, isSingle, pc, localVars,
                   outcome, writeLog, stderr, opens>>

\* Receive, had the loop kept going after an error and returned it only
\* once every stream had reported.
ReceiveWaitsForAll ==
    /\ pcMain = "recv"
    /\ ch # <<>>
    /\ LET e == Head(ch)
       IN  /\ ch' = Tail(ch)
           /\ n' = n - 1
           /\ consumed' = Append(consumed, e)
           /\ IF n - 1 = 0 THEN Return(e)
              ELSE UNCHANGED <<pcMain, result>>
    /\ UNCHANGED <<envVars, fs, opened, source, sink, idx, isSingle, pc, localVars,
                   outcome, writeLog, stderr, opens>>

\* Mux.Run: one turn of `for err := range ch`.
Receive ==
    /\ pcMain = "recv"
    /\ ch # <<>>
    /\ LET e == Head(ch)
       IN  /\ ch' = Tail(ch)
           /\ n' = n - 1
           /\ consumed' = Append(consumed, e)
           /\ IF e # EOF THEN Return(e)
              ELSE IF n - 1 = 0 THEN Return(NoErr)
              ELSE UNCHANGED <<pcMain, result>>
    /\ UNCHANGED <<envVars, fs, opened, source, sink, idx, isSingle, pc, localVars,
                   outcome, writeLog, stderr, opens>>

\* main: mainInner has returned and the process ends, goroutines and all.
Exit ==
    /\ pcMain = "done"
    /\ pcMain' = "exit"
    /\ UNCHANGED <<envVars, fs, opened, source, sink, idx, n, isSingle, result, ch, pc,
                   localVars, outcome, writeLog, stderr, consumed, opens>>

\* -------------------------------------------------------- Run and readOne

\* bufio.Reader.ReadBytes('\n'): the bytes up to and including the first
\* newline; without one, all the bytes left together with the reader's error.
ReadBytes(src) ==
    LET d == src.data
        nls == {k \in 1..Len(d) : d[k] = NL}
    IN  IF nls # {}
        THEN LET k == CHOOSE j \in nls : \A m \in nls : j <= m
             IN  [buf |-> SubSeq(d, 1, k), err |-> NoErr,
                  rest |-> [src EXCEPT !.data = SubSeq(d, k + 1, Len(d))]]
        ELSE [buf |-> d, err |-> src.end, rest |-> [src EXCEPT !.data = <<>>]]

\* The line Run prints when its loop ends.
Ending(i, e) == [kind |-> "ending", tag |-> streams[i].tag, err |-> e]

\* The line NamedPipeStream.Preread prints when it has opened the pipe.
Opened(i) == [kind |-> "opened", tag |-> streams[i].tag, err |-> NoErr]

\* readOne returns e to Run's loop: nil loops; anything else is printed,
\* unless the stream is the only one, and is what Run will send.
Finish(i, e) ==
    /\ buf' = [buf EXCEPT ![i] = <<>>]
    /\ err' = [err EXCEPT ![i] = NoErr]
    /\ e2' = [e2 EXCEPT ![i] = NoErr]
    /\ IF e = NoErr
       THEN /\ pc' = [pc EXCEPT ![i] = "preread"]
            /\ UNCHANGED <<outcome, stderr>>
       ELSE /\ pc' = [pc EXCEPT ![i] = "send"]
            /\ outcome' = [outcome EXCEPT ![i] = e]
            /\ stderr' = IF isSingle THEN stderr
                         ELSE [stderr EXCEPT ![i] = Append(stderr[i], Ending(i, e))]

\* PipeStream.Preread, had it let a closed descriptor through to the read.
PipePrereadLenient(i) ==
    /\ pc' = [pc EXCEPT ![i] = "read"]
    /\ UNCHANGED <<localVars, outcome, stderr, source, opened>>

\* PipeStream.Preread
PipePreread(i) ==
    /\ IF source[i] = NIL
       THEN Finish(i, EOF)
       ELSE /\ pc' = [pc EXCEPT ![i] = "read"]
            /\ UNCHANGED <<localVars, outcome, stderr>>
    /\ UNCHANGED <<source, opened>>

\* NamedPipeStream.Preread, had it answered a closed pipe with end-of-stream
\* as PipeStream.Preread does.
NamedPipePrereadEndsAtEOF(i) ==
    /\ IF source[i] = NIL
       THEN Finish(i, EOF)
       ELSE /\ pc' = [pc EXCEPT ![i] = "read"]
            /\ UNCHANGED <<localVars, outcome, stderr>>
    /\ UNCHANGED <<source, opened>>

\* NamedPipeStream.Preread, had it returned nil without opening a closed pipe.
NamedPipePrereadNoReopen(i) ==
    /\ pc' = [pc EXCEPT ![i] = "read"]
    /\ UNCHANGED <<source, opened, localVars, outcome, stderr>>

\* NamedPipeStream.Preread: os.OpenFile waits for a writer to open the pipe.
NamedPipePreread(i) ==
    IF source[i] # NIL
    THEN /\ pc' = [pc EXCEPT ![i] = "read"]
         /\ UNCHANGED <<source, opened, localVars, outcome, stderr>>
    ELSE /\ opened[i] < Len(streams[i].sessions)
         /\ LET s == streams[i].sessions[opened[i] + 1]
            IN  /\ opened' = [opened EXCEPT ![i] = opened[i] + 1]
                /\ IF s.open
                   THEN /\ source' = [source EXCEPT ![i] =
                                         [data |-> s.data,
                                          end |-> IF s.end = "EOF"
                                                  THEN EOF ELSE Err("read", streams[i].name)]]
                        /\ stderr' = [stderr EXCEPT ![i] = Append(stderr[i], Opened(i))]
                        /\ pc' = [pc EXCEPT ![i] = "read"]
                        /\ UNCHANGED <<localVars, outcome>>
                   ELSE /\ Finish(i, Err("open", streams[i].name))
                        /\ UNCHANGED source

\* readOne: err := s.Preread()
Preread(i) ==
    /\ pc[i] = "preread"
    /\ pcMain # "exit"
    /\ IF streams[i].kind = "fd" THEN PipePreread(i) ELSE NamedPipePreread(i)
    /\ UNCHANGED <<envVars, fs, sink, pcMain, idx, n, isSingle, result, ch, writeLog,
                   consumed, opens>>

\* Read, had bytes that come with end-of-stream been left unwritten.
ReadDropsPartialLine(i) ==
    /\ pc[i] = "read"
    /\ pcMain # "exit"
    /\ LET r == ReadBytes(source[i])
       IN  /\ buf' = [buf EXCEPT ![i] = r.buf]
           /\ err' = [err EXCEPT ![i] = r.err]
           /\ e2' = [e2 EXCEPT ![i] = NoErr]
           /\ source' = [source EXCEPT ![i] = r.rest]
           /\ pc' = [pc EXCEPT ![i] = IF Len(r.buf) > 0 /\ r.err # EOF
                                      THEN "write" ELSE "check"]
    /\ UNCHANGED <<envVars, fs, opened, sink, pcMain, idx, n, isSingle, result, ch,
                   outcome, writeLog, stderr, consumed, opens>>

\* readOne: buf, err := s.Source().ReadBytes('\n'); var e2 error
Read(i) ==
    /\ pc[i] = "read"
    /\ pcMain # "exit"
    /\ LET r == ReadBytes(source[i])
       IN  /\ buf' = [buf EXCEPT ![i] = r.buf]
           /\ err' = [err EXCEPT ![i] = r.err]
           /\ e2' = [e2 EXCEPT ![i] = NoErr]
           /\ source' = [source EXCEPT ![i] = r.rest]
           /\ pc' = [pc EXCEPT ![i] = IF Len(r.buf) > 0 THEN "write" ELSE "check"]
    /\ UNCHANGED <<envVars, fs, opened, sink, pcMain, idx, n, isSingle, result, ch,
                   outcome, writeLog, stderr, consumed, opens>>

\* WriteBegin, had the Write calls been guarded by a lock on the sink.
WriteBeginLocked(i) ==
    /\ pc[i] = "write"
    /\ pcMain # "exit"
    /\ \A j \in Ids : pc[j] # "writing"
    /\ buf' = [buf EXCEPT ![i] = processLine(buf[i], streams[i].tag)]
    /\ pc' = [pc EXCEPT ![i] = "writing"]
    /\ UNCHANGED <<envVars, fs, opened, source, sink, pcMain, idx, n, isSingle, result,
                   ch, err, e2, outcome, writeLog, stderr, consumed, opens>>

\* WriteBegin, had the line been written as read, untagged.
WriteBeginUntagged(i) ==
    /\ pc[i] = "write"
    /\ pcMain # "exit"
    /\ pc' = [pc EXCEPT ![i] = "writing"]
    /\ UNCHANGED <<envVars, fs, opened, source, sink, pcMain, idx, n, isSingle, result,
                   ch, buf, err, e2, outcome, writeLog, stderr, consumed, opens>>

\* readOne: buf = processLine(buf, s.Tag()), and l.sink.Write(buf) is called.
WriteBegin(i) ==
    /\ pc[i] = "write"
    /\ pcMain # "exit"
    /\ buf' = [buf EXCEPT ![i] = processLine(buf[i], streams[i].tag)]
    /\ pc' = [pc EXCEPT ![i] = "writing"]
    /\ UNCHANGED <<envVars, fs, opened, source, sink, pcMain, idx, n, isSingle, result,
                   ch, err, e2, outcome, writeLog, stderr, consumed, opens>>

\* Whether the next Write call on the connection succeeds.
SinkAccepts == ~net.breaks \/ Len(writeLog) < net.after

\* WriteEnd, had the bytes been put ahead of what the connection holds.
WriteEndAhead(i) ==
    /\ pc[i] = "writing"
    /\ pcMain # "exit"
    /\ writeLog' = <<[s |-> i, buf |-> buf[i], ok |-> SinkAccepts]>> \o writeLog
    /\ e2' = [e2 EXCEPT ![i] = IF SinkAccepts THEN NoErr ELSE Err("write", "")]
    /\ pc' = [pc EXCEPT ![i] = "check"]
    /\ UNCHANGED <<envVars, fs, opened, source, sink, pcMain, idx, n, isSingle, result,
                   ch, buf, err, outcome, stderr, consumed, opens>>

\* readOne: l.sink.Write(buf) puts the bytes on the connection and returns.
WriteEnd(i) ==
    /\ pc[i] = "writing"
    /\ pcMain # "exit"
    /\ writeLog' = Append(writeLog, [s |-> i, buf |-> buf[i], ok |-> SinkAccepts])
    /\ e2' = [e2 EXCEPT ![i] = IF SinkAccepts THEN NoErr ELSE Err("write", "")]
    /\ pc' = [pc EXCEPT ![i] = "check"]
    /\ UNCHANGED <<envVars, fs, opened, source, sink, pcMain, idx, n, isSingle, result,
                   ch, buf, err, outcome, stderr, consumed, opens>>

\* Verdict, had the write error been tested before the read error.
VerdictWriteErrorFirst(i) ==
    IF err[i] = EOF THEN NoErr
    ELSE IF e2[i] # NoErr THEN e2[i]
    ELSE IF err[i] # NoErr THEN err[i]
    ELSE NoErr

\* Verdict, had end-of-stream been handed to Run like any other error.
VerdictEOFEndsLoop(i) ==
    IF err[i] # NoErr THEN err[i]
    ELSE IF e2[i] # NoErr THEN e2[i]
    ELSE NoErr

\* readOne: what it returns, given err and e2.
Verdict(i) ==
    IF err[i] = EOF THEN NoErr
    ELSE IF err[i] # NoErr THEN err[i]
    ELSE IF e2[i] # NoErr THEN e2[i]
    ELSE NoErr

\* readOne: the checks of err and e2 after the write; MarkClosed on EOF.
Check(i) ==
    /\ pc[i] = "check"
    /\ pcMain # "exit"
    /\ source' = [source EXCEPT ![i] = IF err[i] = EOF THEN NIL ELSE source[i]]
    /\ Finish(i, Verdict(i))
    /\ UNCHANGED <<envVars, fs, opened, sink, pcMain, idx, n, isSingle, result, ch,
                   writeLog, consumed, opens>>

\* Send, had Run's loop gone on after the send.
SendWithoutBreak(i) ==
    /\ pc[i] = "send"
    /\ pcMain # "exit"
    /\ Len(ch) < ChanCap
    /\ ch' = Append(ch, outcome[i])
    /\ pc' = [pc EXCEPT ![i] = "preread"]
    /\ UNCHANGED <<envVars, fs, opened, source, sink, pcMain, idx, n, isSingle, result,
                   localVars, outcome, writeLog, stderr, consumed, opens>>

\* Run: ch <- err; break
Send(i) ==
    /\ pc[i] = "send"
    /\ pcMain # "exit"
    /\ Len(ch) < ChanCap
    /\ ch' = Append(ch, outcome[i])
    /\ pc' = [pc EXCEPT ![i] = "done"]
    /\ UNCHANGED <<envVars, fs, opened, source, sink, pcMain, idx, n, isSingle, result,
                   localVars, outcome, writeLog, stderr, consumed, opens>>

\* One step of the goroutine of stream i.
Runner(i) ==
    \/ Preread(i)
    \/ Read(i)
    \/ WriteBegin(i)
    \/ WriteEnd(i)
    \/ Check(i)
    \/ Send(i)

\* One step of the main goroutine.
Main ==
    \/ ConfigureSink
    \/ OpenStream
    \/ Launch
    \/ Receive
    \/ Exit

Next ==
    \/ ConfigureSink
    \/ OpenStream
    \/ Launch
    \/ Receive
    \/ Exit
    \/ \E i \in Ids : Preread(i)
    \/ \E i \in Ids : Read(i)
    \/ \E i \in Ids : WriteBegin(i)
    \/ \E i \in Ids : WriteEnd(i)
    \/ \E i \in Ids : Check(i)
    \/ \E i \in Ids : Send(i)

Spec == Init /\ [][Next]_vars

\* Descriptor stream: one plain line, then EOF.
FdPlain == Stream("fd", <<"p">>, "8", "none",
                  <<Session(TRUE, <<SP, "a", NL>>, "EOF")>>)

\* The configurations made of descriptor streams alone.
PipeConfigs == {c \in SeqsUpTo({FdJson, FdPlain}, MaxStreams) : Len(c) >= 1}

InitPipes == InitWith(PipeConfigs, Nets)

\* The scheduling the Go runtime gives: every goroutine that can take a
\* step eventually takes one.
Fairness == WF_vars(Main) /\ \A i \in 1..MaxStreams : WF_vars(i \in Ids /\ Runner(i))

\* The specification started with descriptor streams only, under that
\* scheduling.
FairPipeSpec == InitPipes /\ [][Next]_vars /\ Fairness

\* As many streams as the channel has room for, and one more; each is a
\* named pipe whose open fails, so that its runner ends at once.
CapConfigs == {[i \in 1..k |-> NpLost] : k \in {ChanCap, ChanCap + 1}}

\* A few configurations of one and two streams.
SmallConfigs == {<<FdJson>>, <<NpTwice, FdFail>>, <<FdJson, NpGone>>}

\* A network that never fails.
CapNets == {nt \in Nets : nt.dial /\ ~nt.breaks}

InitCap == InitWith(CapConfigs \cup SmallConfigs, CapNets)

\* The specification started with as many streams as the channel holds, and
\* with more.
SpecCap == InitCap /\ [][Next]_vars

\* Descriptor stream: an unterminated line that comes with a read error.
FdTorn == Stream("fd", <<"r">>, "9", "none", <<Session(TRUE, <<"b">>, "read")>>)

\* The configurations whose streams fail each in its own way.
BreakConfigs == {c \in SeqsUpTo({FdFail, FdTorn, FdPlain, NpGone}, MaxStreams) : Len(c) >= 1}

\* A network whose connection breaks.
BreakNets == {nt \in Nets : nt.breaks}

InitBreaks == InitWith(BreakConfigs, BreakNets)

\* The specification started with failing streams and a connection that
\* breaks.
BreakSpec == InitBreaks /\ [][Next]_vars

\* The bytes a line is drawn from.
LineBytes == {"{", "}", "a", SP, FF, NL}

\* The tags a stream specification can carry: anything without a colon.
LineTags == {<<"t">>, <<"t", QT>>, <<BS>>}

\* One descriptor stream that delivers any bytes up to MaxLine, under any tag.
LineConfigs ==
    {<<Stream("fd", t, "6", "none", <<Session(TRUE, d, "EOF")>>)>> :
        t \in LineTags, d \in SeqsUpTo(LineBytes, MaxLine)}

InitLines == InitWith(LineConfigs, CapNets)

\* The specification started with one descriptor stream of arbitrary bytes.
LineSpec == InitLines /\ [][Next]_vars

\* ================================================================== claims

\* The Write calls stream i has completed, in order.
WritesOf(i) == SelectSeq(writeLog, LAMBDA w : w.s = i)

\* Stream i is a descriptor stream that has been opened and marked closed.
PipeClosed(i) == streams[i].kind = "fd" /\ opened[i] = 1 /\ source[i] = NIL

\* C1: Mux.Run returns nil only when every stream's runner has reported
\* end-of-stream, the scheduler has consumed all of these outcomes and its
\* count of running streams is zero; never while a runner has yet to report,
\* never after consuming an outcome that is not end-of-stream.
SuccessOnlyAfterAllEOF ==
    result = NoErr =>
        /\ n = 0
        /\ ch = <<>>
        /\ Len(consumed) = Len(streams)
        /\ \A k \in 1..Len(consumed) : consumed[k] = EOF
        /\ \A i \in Ids : pc[i] = "done" /\ outcome[i] = EOF

SuccessWithTwoStreams == result = NoErr /\ Len(streams) = 2 /\ Len(consumed) = 2

\* C2: once the scheduler has consumed an outcome that is not end-of-stream,
\* Mux.Run has returned, with exactly that error; every outcome consumed
\* before it was end-of-stream and none is consumed after it.
FirstErrorReturnedAtOnce ==
    \A k \in 1..Len(consumed) :
        consumed[k] # EOF =>
            /\ pcMain \in {"done", "exit"}
            /\ k = Len(consumed)
            /\ result = consumed[k]
            /\ \A j \in 1..(k - 1) : consumed[j] = EOF

ErrorReturnedWhileOthersRun ==
    /\ pcMain = "done"
    /\ Len(consumed) = 1
    /\ result = consumed[1]
    /\ result.kind = "read"
    /\ \E i \in Ids : pc[i] \in {"preread", "read", "write", "writing", "check"}

\* C3: a descriptor stream that has hit end-of-stream stays closed: its
\* source stays absent, nothing more is read from it or written for it, and
\* its runner's only steps are the Preread that yields end-of-stream and the
\* one send of that outcome.
PipeEOFIsFinal ==
    [][\A i \in Ids :
          PipeClosed(i) =>
              /\ source'[i] = NIL
              /\ opened'[i] = opened[i]
              /\ WritesOf(i)' = WritesOf(i)
              /\ pc'[i] \notin {"read", "write", "writing", "check"}
              /\ pc'[i] # pc[i] =>
                    \/ pc[i] = "preread" /\ pc'[i] = "send" /\ outcome'[i] = EOF
                    \/ /\ pc[i] = "send" /\ pc'[i] = "done"
                       /\ outcome[i] = EOF /\ ch' = Append(ch, EOF)]_vars

PipeReportedEOFAfterLines ==
    \E i \in Ids :
        /\ PipeClosed(i)
        /\ pc[i] = "done"
        /\ outcome[i] = EOF
        /\ \E k \in 1..Len(writeLog) : writeLog[k].s = i /\ writeLog[k].buf # <<>>

\* C4: end-of-stream on a named-pipe stream does not end its runner: the
\* stream is marked closed, nothing is printed or sent to the scheduler, and
\* the runner goes on to Preread; Preread on the closed stream opens the path
\* again and installs the bytes of the next writer as a fresh source (an
\* open that fails ends the runner with the open error, never with
\* end-of-stream).
NamedPipeEOFReopens ==
    [][\A i \in Ids :
          streams[i].kind = "np" =>
              /\ (pc[i] = "check" /\ err[i] = EOF /\ pc'[i] # pc[i]) =>
                    /\ source'[i] = NIL
                    /\ pc'[i] = "preread"
                    /\ ch' = ch
                    /\ outcome'[i] = outcome[i]
                    /\ stderr'[i] = stderr[i]
              /\ (pc[i] = "preread" /\ source[i] = NIL /\ pc'[i] # pc[i]) =>
                    \/ /\ pc'[i] = "read"
                       /\ opened'[i] = opened[i] + 1
                       /\ source'[i] # NIL
                       /\ source'[i].data = streams[i].sessions[opened'[i]].data
                    \/ /\ pc'[i] = "send"
                       /\ outcome'[i] = Err("open", streams[i].name)
                       /\ source'[i] = NIL]_vars

LineForwardedAfterReopen ==
    \E i \in Ids :
        /\ streams[i].kind = "np"
        /\ opened[i] = 2
        /\ Len(WritesOf(i)) = 2
        /\ WritesOf(i)[2].ok
        /\ WritesOf(i)[2].buf = processLine(streams[i].sessions[2].data, streams[i].tag)
        /\ pc[i] # "done"

\* C5: when a read returns bytes together with end-of-stream and the Write
\* of those bytes fails, readOne returns the write error and the runner
\* ends, reporting it.
WriteFailureAtEOFReported ==
    [][\A i \in Ids :
          (pc[i] = "check" /\ err[i] = EOF /\ e2[i] # NoErr /\ pc'[i] # pc[i]) =>
              pc'[i] = "send" /\ outcome'[i] = e2[i]]_vars

\* C6: a line that trims to empty causes no Write call on the sink.
NoWriteForBlankLine ==
    /\ \A k \in 1..Len(writeLog) : writeLog[k].buf # <<>>
    /\ \A i \in Ids : pc[i] = "writing" => buf[i] # <<>>

\* Open on stream i can succeed: a descriptor, or a path that holds a pipe
\* or where a pipe can be made.
Openable(i) == streams[i].kind = "fd" \/ streams[i].path \in {"absent", "fifo"}

\* Mux.Configure returned an error.
ConfigureFailed == result.kind \in {"dial", "notpipe", "mkfifo"}

\* C8: Configure opens the sink, then the streams in the order given, and
\* stops at the first failure: nothing is opened after a failed Open, and
\* Mux.Run then returns that error with no runner launched, no stream read
\* and nothing written to the sink.
ConfigureStopsAtFirstFailure ==
    /\ \A k \in 1..Len(opens) : opens[k] = k - 1
    /\ (Len(opens) >= 2) => sink
    /\ \A k \in 2..Len(opens) : \A j \in 1..(opens[k] - 1) : Openable(j)
    /\ \A i \in Ids :
          (i + 1 > Len(opens)) =>
              source[i] = NIL /\ opened[i] = 0 /\ fs[i] = streams[i].path /\ pc[i] = "idle"
    /\ (\E i \in Ids : pc[i] # "idle") =>
          /\ Len(opens) = Len(streams) + 1
          /\ \A i \in Ids : Openable(i)
    /\ result.kind = "dial" => ~net.dial /\ opens = <<0>>
    /\ result.kind \in {"notpipe", "mkfifo"} =>
          /\ result.s = streams[Len(opens) - 1].name
          /\ ~Openable(Len(opens) - 1)
          /\ result.kind = "notpipe" <=> streams[Len(opens) - 1].path = "file"
    /\ ConfigureFailed =>
          /\ \A i \in Ids : pc[i] = "idle" /\ opened[i] <= 1
          /\ \A i \in Ids : source[i] # NIL => source[i].data = streams[i].sessions[1].data
          /\ writeLog = <<>>
          /\ ch = <<>>
          /\ consumed = <<>>
          /\ \A i \in Ids : stderr[i] = <<>>

SecondOpenFailedAfterFirst ==
    /\ pcMain = "done"
    /\ Len(streams) = 2
    /\ result = Err("notpipe", streams[2].name)
    /\ streams[1].kind = "fd"
    /\ source[1] # NIL

\* The runner-termination notices stream i's goroutine has printed.
Endings(i) == SelectSeq(stderr[i], LAMBDA l : l.kind = "ending")

\* C10: with exactly one configured stream no runner-termination notice is
\* ever printed; with two or more, a runner that has ended its loop has
\* printed exactly one notice, with its tag and the error it reports, by the
\* time it is about to send that error, and a runner still in its loop has
\* printed none.
NoticesDependOnStreamCount ==
    \A i \in Ids :
        IF Len(streams) >= 2 /\ pc[i] \in {"send", "done"}
        THEN Endings(i) = <<Ending(i, outcome[i])>>
        ELSE Endings(i) = <<>>

NoticePrintedBeforeSend ==
    /\ Len(streams) = 2
    /\ pc[1] = "done"
    /\ pc[2] = "send"
    /\ Len(Endings(2)) = 1
    /\ Len(ch) + Len(consumed) = 1

\* C7 as stated: whatever the number of streams, a runner that is about to
\* send its outcome finds room in the channel.
SendNeverBlocks == \A i \in Ids : pc[i] = "send" => Len(ch) < ChanCap

\* C7: the channel has room for ten outcomes, whatever the number of
\* streams; with at most ten streams a runner that is about to send its
\* outcome finds room in the channel, also after Mux.Run has returned.
SendNeverBlocksUpToCap == Len(streams) <= ChanCap => SendNeverBlocks

LastSendAfterReturn ==
    /\ Len(streams) = ChanCap
    /\ pcMain = "done"
    /\ Len(consumed) = 1
    /\ Len(ch) = ChanCap - 2
    /\ \E i \in Ids : pc[i] = "send"

\* The lines of d, cut as ReadBytes cuts them.
RECURSIVE Lines(_)
Lines(d) ==
    IF d = <<>> THEN <<>>
    ELSE LET r == ReadBytes([data |-> d, end |-> EOF])
         IN  <<r.buf>> \o Lines(r.rest.data)

\* The lines of q, tagged, without those that trim to empty.
RECURSIVE Tagged(_, _)
Tagged(q, tag) ==
    IF q = <<>> THEN <<>>
    ELSE (IF TrimSpace(Head(q)) = <<>> THEN <<>> ELSE <<processLine(Head(q), tag)>>)
         \o Tagged(Tail(q), tag)

\* The frames the sink has received from stream i: the non-empty buffers of
\* its Write calls that succeeded.
FramesOf(i) == SelectSeq(WritesOf(i), LAMBDA w : w.ok /\ w.buf # <<>>)

\* Every stream is a descriptor stream that ends in end-of-stream, and the
\* sink connects and never fails.
CleanPipesOnly ==
    /\ net.dial
    /\ ~net.breaks
    /\ \A i \in Ids : streams[i].kind = "fd" /\ streams[i].sessions[1].end = "EOF"

\* The sink has received, for each stream, exactly the tagged frames of its
\* non-empty lines, in order, and nothing else.
SinkHoldsExactlyTheFrames ==
    /\ \A i \in Ids :
          [k \in 1..Len(FramesOf(i)) |-> FramesOf(i)[k].buf]
              = Tagged(Lines(streams[i].sessions[1].data), streams[i].tag)
    /\ \A k \in 1..Len(writeLog) : writeLog[k].ok

\* C9: when every stream is a descriptor stream that delivers its lines and
\* then end-of-stream, and nothing fails, Mux.Run eventually returns nil,
\* and when it has, the sink holds exactly one tagged frame for each line
\* that does not trim to empty.
CleanRunSucceedsWithAllFrames ==
    /\ CleanPipesOnly ~> (result = NoErr)
    /\ [](CleanPipesOnly /\ result = NoErr => SinkHoldsExactlyTheFrames)

TwoPipesDoneWithFrames ==
    /\ CleanPipesOnly
    /\ Len(streams) = 2
    /\ result = NoErr
    /\ streams[1] = FdJson
    /\ streams[2] = FdPlain
    /\ Len(FramesOf(1)) = 1
    /\ Len(FramesOf(2)) = 1
    /\ Len(writeLog) = 3

\* Stream i's goroutine tags the line it has read: readOne's call of
\* processLine.
Tags(i) == pc[i] = "write" /\ pc'[i] = "writing"

\* b starts with '{' and ends with '}'.
BraceBounded(b) == Len(b) >= 2 /\ b[1] = "{" /\ b[Len(b)] = "}"

\* The bytes of b between its first and its last.
Interior(b) == SubSeq(b, 2, Len(b) - 1)

\* b holds a byte other than space, tab, carriage return and newline.
HasMember(b) == \E k \in 1..Len(b) : b[k] \notin {SP, "\t", "\r", NL}

\* The member  ,"tag":  and  "tag":  as bytes.
TagMember == <<QT, "t", "a", "g", QT, ":">>

\* The tag between double quotes, as it is.
Bare(tag) == <<QT>> \o tag \o <<QT>>

\* C11 as stated: a brace-bounded line with a member is returned with its
\* final brace replaced by  ,"tag":"<tag>"}  and one newline, the tag as it is.
SpliceKeepsTagAsIs ==
    [][\A i \in Ids :
          LET t == TrimSpace(buf[i])
          IN  (Tags(i) /\ BraceBounded(t) /\ HasMember(Interior(t))) =>
                  buf'[i] = SubSeq(t, 1, Len(t) - 1) \o <<",">> \o TagMember
                            \o Bare(streams[i].tag) \o <<"}", NL>>]_vars

\* C11: a line whose trimmed content starts with '{', ends with '}' and
\* holds, between them, a byte other than space, tab, carriage return and
\* newline is returned with every byte before the final brace unchanged,
\* then  ,"tag":  then the tag as a Go double-quoted string (%q: its quotes
\* and backslashes escaped), then '}' and exactly one newline.
SpliceQuotesTag ==
    [][\A i \in Ids :
          LET t == TrimSpace(buf[i])
              out == buf'[i]
              q == Quote(streams[i].tag)
              m == Len(t) - 1
          IN  (Tags(i) /\ BraceBounded(t) /\ HasMember(Interior(t))) =>
                  /\ Len(out) = m + 1 + Len(TagMember) + Len(q) + 2
                  /\ SubSeq(out, 1, m) = SubSeq(t, 1, m)
                  /\ out[m + 1] = ","
                  /\ SubSeq(out, m + 2, m + 1 + Len(TagMember)) = TagMember
                  /\ SubSeq(out, m + 2 + Len(TagMember), Len(out) - 2) = q
                  /\ out[Len(out) - 1] = "}"
                  /\ out[Len(out)] = NL
                  /\ \A k \in 1..(Len(out) - 1) : out[k] # NL]_vars

SplicedWithEscapedTag ==
    /\ pc[1] = "writing"
    /\ streams[1].tag = <<"t", QT>>
    /\ streams[1].sessions[1].data = <<SP, "{", "a", "}">>
    /\ buf[1] = <<"{", "a", ",", QT, "t", "a", "g", QT, ":", QT, "t", BS, QT, QT, "}", NL>>

\* C12 as stated: a line that trims to '{', blanks, '}' is returned as
\* {"tag":"<tag>"}  and one newline, the tag as it is.
EmptyObjectKeepsTagAsIs ==
    [][\A i \in Ids :
          LET t == TrimSpace(buf[i])
          IN  (Tags(i) /\ BraceBounded(t) /\ ~HasMember(Interior(t))) =>
                  buf'[i] = <<"{">> \o TagMember \o Bare(streams[i].tag)
                            \o <<"}", NL>>]_vars

\* C12: a line whose trimmed content is '{', then only spaces, tabs,
\* carriage returns and newlines (possibly none), then '}' is returned as
\* exactly  {"tag":  the tag as a Go double-quoted string (%q)  }  and one
\* newline: the interior is discarded.
EmptyObjectReplaced ==
    [][\A i \in Ids :
          LET t == TrimSpace(buf[i])
          IN  (Tags(i) /\ BraceBounded(t) /\ ~HasMember(Interior(t))) =>
                  buf'[i] = <<"{">> \o TagMember \o Quote(streams[i].tag)
                            \o <<"}", NL>>]_vars

BlankObjectReplaced ==
    /\ pc[1] = "writing"
    /\ streams[1].tag = <<BS>>
    /\ streams[1].sessions[1].data = <<"{", SP, "}", NL>>
    /\ buf[1] = <<"{", QT, "t", "a", "g", QT, ":", QT, BS, BS, QT, "}", NL>>

\* C13: a line whose trimmed content is non-empty and does not both start
\* with '{' and end with '}' is returned as the tag as it is, then ': ',
\* then the trimmed content, then one newline.
PlainLinePrefixed ==
    [][\A i \in Ids :
          LET t == TrimSpace(buf[i])
          IN  (Tags(i) /\ Len(t) > 0 /\ ~BraceBounded(t)) =>
                  buf'[i] = streams[i].tag \o <<":", SP>> \o t \o <<NL>>]_vars

OpenBraceLinePrefixed ==
    /\ pc[1] = "writing"
    /\ streams[1].tag = <<"t", QT>>
    /\ streams[1].sessions[1].data = <<FF, "{", "a", SP>>
    /\ buf[1] = <<"t", QT, ":", SP, "{", "a", NL>>

\* C14: whenever a goroutine is at its line read the stream's source is
\* present; the read is reached only from a Preread of the same iteration
\* that returned nil, and such a Preread leaves the source present, for a
\* descriptor and for a named pipe, the first iteration included.
ReadOnlyFromPresentSource ==
    [][\A i \in Ids :
          /\ pc[i] = "read" => source[i] # NIL
          /\ (pc[i] # "read" /\ pc'[i] = "read") =>
                 /\ pc[i] = "preread"
                 /\ source'[i] # NIL
                 /\ outcome'[i] = outcome[i]
          /\ (pc[i] = "read" /\ pc'[i] # "read") =>
                 /\ buf'[i] = ReadBytes(source[i]).buf
                 /\ pc'[i] \in {"write", "check"}]_vars

ReadAfterReopen ==
    \E i \in Ids :
        /\ streams[i].kind = "np"
        /\ opened[i] = 2
        /\ pc[i] = "read"
        /\ source[i] # NIL
        /\ \E j \in Ids : streams[j].kind = "fd" /\ pc[j] = "read" /\ opened[j] = 1

\* The error of a failed l.sink.Write.
WriteErr == Err("write", "")

\* Stream i's goroutine leaves readOne: the tests of err and e2 are made.
Returns(i) == pc[i] = "check" /\ pc'[i] # "check"

\* Mux.Run returns an error from its receive loop.
RunFails == pcMain = "recv" /\ result = Running /\ result' \notin {Running, NoErr}

\* C15 as stated: once a goroutine has ended on a write error, the error
\* Mux.Run then returns is that write error.
WriteErrorIsWhatRunReturns ==
    [][\A i \in Ids :
          (pc[i] \in {"send", "done"} /\ outcome[i] = WriteErr /\ RunFails) =>
              result' = WriteErr]_vars

\* C15: a failed write in an iteration whose read gave a line and no error
\* ends the goroutine with the write error as its outcome; with a read error
\* other than EOF in the same iteration the outcome is the read error; and
\* Mux.Run fails with the first outcome other than EOF that it receives,
\* which is the write error unless another goroutine's error came first.
WriteFailureEndsRunner ==
    [][/\ \A i \in Ids :
             /\ (Returns(i) /\ err[i] = NoErr /\ e2[i] # NoErr) =>
                    /\ e2[i] = WriteErr
                    /\ outcome'[i] = WriteErr
                    /\ pc'[i] = "send"
             /\ (Returns(i) /\ err[i] \notin {NoErr, EOF}) =>
                    /\ outcome'[i] = err[i]
                    /\ pc'[i] = "send"
       /\ RunFails =>
              /\ result' = Head(ch)
              /\ result' # EOF
              /\ \A k \in 1..Len(consumed) : consumed[k] = EOF
              /\ \E j \in Ids : pc[j] = "done" /\ outcome[j] = result']_vars

RunFailedOnWriteError ==
    \E i, j \in Ids :
        /\ pc[i] = "done"
        /\ outcome[i] = WriteErr
        /\ result = WriteErr
        /\ outcome[j] = Err("read", streams[j].name)
        /\ \E k \in 1..Len(writeLog) : writeLog[k].s = j /\ ~writeLog[k].ok

\* The unterminated bytes that end the current session of stream i, if any.
PartialLine(i) ==
    LET ss == streams[i].sessions[opened[i]]
        q == Lines(ss.data)
    IN  IF ss.end = "EOF" /\ q # <<>> /\ q[Len(q)][Len(q[Len(q)])] # NL
        THEN q[Len(q)]
        ELSE <<>>

\* Stream i is marked closed.
MarksClosed(i) == source[i] # NIL /\ source'[i] = NIL

\* C16: bytes that a read returns together with end-of-stream go on to the
\* write with the source still present, and when the stream is then marked
\* closed, the latest Write call of its goroutine has been made with those
\* bytes, tagged: the unterminated last line is handed to the sink first.
PartialLineWrittenBeforeClose ==
    [][\A i \in Ids :
          /\ (pc[i] = "read" /\ pc'[i] # "read" /\ err'[i] = EOF /\ Len(buf'[i]) > 0) =>
                 /\ pc'[i] = "write"
                 /\ source'[i] # NIL
          /\ pc[i] \in {"write", "writing"} => source[i] # NIL
          /\ MarksClosed(i) =>
                 /\ pc[i] = "check"
                 /\ err[i] = EOF
                 /\ PartialLine(i) # <<>> =>
                        LET w == WritesOf(i)
                        IN  /\ w # <<>>
                            /\ w[Len(w)].buf = processLine(PartialLine(i), streams[i].tag)
                            /\ ~net.breaks => w[Len(w)].ok]_vars

PartialLinesForwarded ==
    \E i, j \in Ids :
        /\ streams[i].kind = "fd" /\ streams[j].kind = "np"
        /\ source[i] = NIL /\ source[j] = NIL
        /\ opened[i] = 1 /\ opened[j] = 1
        /\ FramesOf(i) = <<[s |-> i, ok |-> TRUE,
                            buf |-> <<"{", "a", ",", QT, "t", "a", "g", QT, ":",
                                      QT, "t", QT, "}", NL>>]>>
        /\ FramesOf(j) = <<[s |-> j, buf |-> <<"n", ":", SP, "b", NL>>, ok |-> TRUE]>>

\* C17: nothing excludes the Write calls of two goroutines from one
\* another: a goroutine that has read a line can enter its Write call while
\* others are inside theirs, and of two goroutines inside their Write calls
\* either can be the first whose bytes reach the connection, whichever read
\* its line first.
WritesNotExcluded ==
    \A i \in Ids :
        /\ (pc[i] = "write" /\ pcMain # "exit") => ENABLED WriteBegin(i)
        /\ (pc[i] = "writing" /\ pcMain # "exit") => ENABLED WriteEnd(i)

TwoRunnersInsideWrite ==
    /\ Len(streams) = 2
    /\ pc[1] = "writing"
    /\ pc[2] = "writing"
    /\ buf[1] # <<>>
    /\ buf[2] # <<>>
    /\ writeLog = <<>>

\* The streams whose goroutine has been started, and those whose goroutine
\* has sent its outcome.
Launched == {i \in Ids : pc[i] # "idle"}
Sent == {i \in Ids : pc[i] = "done"}

\* C18 as stated: while Mux.Run is past Configure, its count n equals the
\* number of streams minus the number of outcomes it has consumed.
CountIsStreamsLessConsumed ==
    (pcMain = "launch" \/ Launched # {}) => n = Len(streams) - Len(consumed)

\* C18: every goroutine sends at most one outcome and, having sent it,
\* takes no further step: no Preread, read, MarkClosed or Write; so the
\* count n is never negative and always equals the number of goroutines
\* started so far minus the number of outcomes consumed, which is the number
\* of streams minus the number consumed once all of them are started.
OneOutcomePerRunner ==
    [][/\ Len(ch) + Len(consumed) = Cardinality(Sent)
       /\ n >= 0
       /\ n = Cardinality(Launched) - Len(consumed)
       /\ Launched = Ids => n = Len(streams) - Len(consumed)
       /\ \A i \in Ids :
             /\ (pc[i] = "send" /\ pc'[i] # "send") =>
                    /\ pc'[i] = "done"
                    /\ ch' = Append(ch, outcome[i])
             /\ pc[i] = "done" =>
                    /\ pc'[i] = "done"
                    /\ source'[i] = source[i]
                    /\ opened'[i] = opened[i]
                    /\ outcome'[i] = outcome[i]
                    /\ stderr'[i] = stderr[i]
                    /\ WritesOf(i)' = WritesOf(i)
                    /\ Len(ch') + Len(consumed') = Len(ch) + Len(consumed)
                           + Cardinality(Sent') - Cardinality(Sent)]_vars

SentWhileOthersUnstarted ==
    /\ Len(streams) = 2
    /\ pcMain = "launch"
    /\ pc[1] = "done"
    /\ pc[2] = "idle"
    /\ n = 1
    /\ ch = <<outcome[1]>>
    /\ consumed = <<>>

\* The lines of the first k sessions of stream i, in the order of reading.
RECURSIVE LinesThrough(_, _)
LinesThrough(i, k) ==
    IF k = 0 THEN <<>>
    ELSE LinesThrough(i, k - 1) \o Lines(streams[i].sessions[k].data)

\* The lines stream i's goroutine has read so far: those of the sessions
\* opened, less those still in the source.
LinesRead(i) ==
    LET q == LinesThrough(i, opened[i])
    IN  SubSeq(q, 1, Len(q) - Len(Lines(source[i].data)))

\* C19: the Write calls of one stream's goroutine carry its lines in the
\* order they were read, each tagged with that stream's tag, across the
\* reopening of a named pipe; and the Write call for a line has returned,
\* with success or failure, before the next line is read.
StreamOrderKept ==
    \A i \in Ids :
        LET w == WritesOf(i)
            r == LinesRead(i)
        IN  /\ Len(w) = IF pc[i] \in {"write", "writing"} THEN Len(r) - 1 ELSE Len(r)
            /\ \A k \in 1..Len(w) :
                   w[k].buf = processLine(r[k], streams[i].tag)
            /\ pc[i] = "read" => Len(w) = Len(r)

OrderKeptAcrossReopen ==
    \E i, j \in Ids :
        /\ streams[i].kind = "np"
        /\ opened[i] = 2
        /\ Len(writeLog) = 3
        /\ writeLog[1] = [s |-> i, buf |-> <<"n", ":", SP, "b", NL>>, ok |-> TRUE]
        /\ writeLog[2].s = j /\ j # i
        /\ writeLog[3] = [s |-> i, ok |-> TRUE,
                          buf |-> <<"{", QT, "t", "a", "g", QT, ":", QT, "n", QT, "}", NL>>]

====
